---- MODULE Spec2Model ----
(***************************************************************************)
(* Model of the order validator CLI (src/src/main.rs): the pure functions  *)
(* clean_input and validate over Order values, and the control flow of     *)
(* main in single-file and directory mode.                                 *)
(*                                                                         *)
(* A Rust String is a sequence of one-character strings; an Option<String> *)
(* is a record [some, v] with v = <<>> when some is FALSE.                 *)
(***************************************************************************)
EXTENDS Integers, Sequences, FiniteSets, TLC

\* ------------------------------------------------------------------ bounds
\* longest field value enumerated for the unit-level specification
MaxLen == 2
\* number of directory entries enumerated for the run of main
MaxFiles == 3

\* characters the enumerated field values are built from: a whitespace
\* character, a lowercase letter, an uppercase letter
Chars == {" ", "a", "Z"}

\* ------------------------------------------------------------- characters
\* the ASCII characters str::trim removes (char::is_whitespace), vertical tab left out
WhiteSpace == {" ", "\t", "\n", "\r", "\f"}

IsWhitespace(c) == c \in WhiteSpace

AsciiLower ==
  <<"a","b","c","d","e","f","g","h","i","j","k","l","m",
    "n","o","p","q","r","s","t","u","v","w","x","y","z">>

AsciiUpper ==
  <<"A","B","C","D","E","F","G","H","I","J","K","L","M",
    "N","O","P","Q","R","S","T","U","V","W","X","Y","Z">>

\* u8::to_ascii_uppercase on one character
to_ascii_uppercase_char(c) ==
  IF \E i \in 1..26 : AsciiLower[i] = c
    THEN AsciiUpper[CHOOSE i \in 1..26 : AsciiLower[i] = c]
    ELSE c

\* faulty variant: the case mapping is dropped (to_string in place of to_ascii_uppercase)
to_ascii_uppercase_nop(s) == s

\* str::to_ascii_uppercase
to_ascii_uppercase(s) == [i \in 1..Len(s) |-> to_ascii_uppercase_char(s[i])]

RECURSIVE trim_start(_)
trim_start(s) ==
  IF s = <<>> THEN <<>>
  ELSE IF IsWhitespace(Head(s)) THEN trim_start(Tail(s))
  ELSE s

RECURSIVE trim_end(_)
trim_end(s) ==
  IF s = <<>> THEN <<>>
  ELSE IF IsWhitespace(s[Len(s)]) THEN trim_end(SubSeq(s, 1, Len(s) - 1))
  ELSE s

\* faulty variant: only leading whitespace is removed
trim_only_start(s) == trim_start(s)

\* str::trim
trim(s) == trim_end(trim_start(s))

\* str::is_empty
is_empty(s) == Len(s) = 0

\* ------------------------------------------------------------------ Order
None == [some |-> FALSE, v |-> <<>>]
Some(s) == [some |-> TRUE, v |-> s]

Order(e, p, t) == [event_id |-> e, part_number |-> p, timestamp |-> t]

\* ----------------------------------------------------------------- Issue
Error == "Error"

Issue_error(field, msg) == [field |-> field, severity |-> Error, message |-> msg]

\* -------------------------------------------------------------- validate
\* faulty variant: the part_number match is pushed before the event_id match
validate_part_first(order) ==
  LET e == IF ~order.event_id.some
             THEN <<Issue_error("event_id", "missing required field")>>
           ELSE IF is_empty(trim(order.event_id.v))
             THEN <<Issue_error("event_id", "must not be empty")>>
           ELSE <<>>
      p == IF ~order.part_number.some
             THEN <<Issue_error("part_number", "missing required field")>>
           ELSE IF is_empty(trim(order.part_number.v))
             THEN <<Issue_error("part_number", "must not be empty")>>
           ELSE <<>>
      t == IF ~order.timestamp.some
             THEN <<Issue_error("timestamp", "missing required field")>>
           ELSE IF is_empty(trim(order.timestamp.v))
             THEN <<Issue_error("timestamp", "must not be empty")>>
           ELSE <<>>
  IN  p \o e \o t

\* faulty variant: the timestamp match lost its blank guard
validate_no_timestamp_guard(order) ==
  LET e == IF ~order.event_id.some
             THEN <<Issue_error("event_id", "missing required field")>>
           ELSE IF is_empty(trim(order.event_id.v))
             THEN <<Issue_error("event_id", "must not be empty")>>
           ELSE <<>>
      p == IF ~order.part_number.some
             THEN <<Issue_error("part_number", "missing required field")>>
           ELSE IF is_empty(trim(order.part_number.v))
             THEN <<Issue_error("part_number", "must not be empty")>>
           ELSE <<>>
      t == IF ~order.timestamp.some
             THEN <<Issue_error("timestamp", "missing required field")>>
           ELSE <<>>
  IN  e \o p \o t

\* fn validate: three matches, each pushing at most one issue
validate(order) ==
  LET e == IF ~order.event_id.some
             THEN <<Issue_error("event_id", "missing required field")>>
           ELSE IF is_empty(trim(order.event_id.v))
             THEN <<Issue_error("event_id", "must not be empty")>>
           ELSE <<>>
      p == IF ~order.part_number.some
             THEN <<Issue_error("part_number", "missing required field")>>
           ELSE IF is_empty(trim(order.part_number.v))
             THEN <<Issue_error("part_number", "must not be empty")>>
           ELSE <<>>
      t == IF ~order.timestamp.some
             THEN <<Issue_error("timestamp", "missing required field")>>
           ELSE IF is_empty(trim(order.timestamp.v))
             THEN <<Issue_error("timestamp", "must not be empty")>>
           ELSE <<>>
  IN  e \o p \o t

\* ----------------------------------------------------------- clean_input
\* faulty variant: emptiness is tested on the untrimmed value
clean_input_empty_before_trim(order) ==
  LET event_id ==
        IF ~order.event_id.some THEN None
        ELSE LET trimmed == trim(order.event_id.v)
             IN  IF is_empty(order.event_id.v) THEN None ELSE Some(trimmed)
      part_number ==
        IF ~order.part_number.some THEN None
        ELSE LET trimmed == trim(order.part_number.v)
             IN  IF is_empty(order.part_number.v) THEN None
                 ELSE Some(to_ascii_uppercase(trimmed))
      timestamp ==
        IF ~order.timestamp.some THEN None
        ELSE LET trimmed == trim(order.timestamp.v)
             IN  IF is_empty(order.timestamp.v) THEN None ELSE Some(trimmed)
  IN  Order(event_id, part_number, timestamp)

\* faulty variant: a blank part_number is kept as Some("") instead of None
clean_input_keep_blank_part(order) ==
  LET event_id ==
        IF ~order.event_id.some THEN None
        ELSE LET trimmed == trim(order.event_id.v)
             IN  IF is_empty(trimmed) THEN None ELSE Some(trimmed)
      part_number ==
        IF ~order.part_number.some THEN None
        ELSE LET trimmed == trim(order.part_number.v)
             IN  Some(to_ascii_uppercase(trimmed))
      timestamp ==
        IF ~order.timestamp.some THEN None
        ELSE LET trimmed == trim(order.timestamp.v)
             IN  IF is_empty(trimmed) THEN None ELSE Some(trimmed)
  IN  Order(event_id, part_number, timestamp)

\* fn clean_input: three matches, one per field
clean_input(order) ==
  LET event_id ==
        IF ~order.event_id.some THEN None
        ELSE LET trimmed == trim(order.event_id.v)
             IN  IF is_empty(trimmed) THEN None ELSE Some(trimmed)
      part_number ==
        IF ~order.part_number.some THEN None
        ELSE LET trimmed == trim(order.part_number.v)
             IN  IF is_empty(trimmed) THEN None
                 ELSE Some(to_ascii_uppercase(trimmed))
      timestamp ==
        IF ~order.timestamp.some THEN None
        ELSE LET trimmed == trim(order.timestamp.v)
             IN  IF is_empty(trimmed) THEN None ELSE Some(trimmed)
  IN  Order(event_id, part_number, timestamp)

\* ------------------------------------------------ unit-level state machine
\* The state of a test of the two pure functions, as in mod tests: an Order
\* is built, clean_input is applied zero or more times, validate is applied.
VARIABLES
  test_order,     \* the Order the test built
  prev_cleaned,   \* the Order handed to the last clean_input call
  cleaned,        \* the current Order (test_order until clean_input runs)
  stage,          \* "built", "cleaned" (one clean_input call), "recleaned" (two)
  validated,      \* TRUE once validate has run
  test_issues     \* the Vec<Issue> validate returned

uvars == <<test_order, prev_cleaned, cleaned, stage, validated, test_issues>>

Strs == UNION {[1..n -> Chars] : n \in 0..MaxLen}
Opts == {None} \cup {Some(s) : s \in Strs}
Orders == [event_id : Opts, part_number : Opts, timestamp : Opts]

UInit ==
  /\ test_order \in Orders
  /\ prev_cleaned = test_order
  /\ cleaned = test_order
  /\ stage = "built"
  /\ validated = FALSE
  /\ test_issues = <<>>

\* let cleaned = clean_input(order), on the built Order or on a cleaned one
CallCleanInput ==
  /\ ~validated
  /\ stage # "recleaned"
  /\ prev_cleaned' = cleaned
  /\ cleaned' = clean_input(cleaned)
  /\ stage' = IF stage = "built" THEN "cleaned" ELSE "recleaned"
  /\ UNCHANGED <<test_order, validated, test_issues>>

\* let issues = validate(&order)
CallValidate ==
  /\ ~validated
  /\ test_issues' = validate(cleaned)
  /\ validated' = TRUE
  /\ UNCHANGED <<test_order, prev_cleaned, cleaned, stage>>

\* ------------------------------------------------------------ run of main
\* The environment of one run: what the input path is, what the directory
\* holds, and whether it can be listed.  File names are the integers
\* 1..MaxFiles, ordered as PathBuf orders the paths dir/<name>.
VARIABLES
  input_kind,   \* what cli.input names: "missing", "file", "dir", "other"
  entries,      \* directory entry name -> kind of entry
  listing,      \* "ok", or the way listing the directory fails
  pc,           \* position in main
  files,        \* Vec<PathBuf> returned by get_json_files
  next_file,    \* index in files of the path the for loop is at
  raw,          \* result of fs::read_to_string for the current path
  any_failed,   \* the flag of the directory branch
  reads,        \* every file content read so far, in order
  output,       \* lines and reports written so far, in order
  exit_status   \* process exit status, NoExit while running

mvars == <<input_kind, entries, listing, pc, files, next_file, raw,
           any_failed, reads, output, exit_status>>

vars == <<uvars, mvars>>

NoExit == -1
\* status of process::exit(1)
ExitFailure == 1
\* status of returning from main
ExitSuccess == 0
\* a panic ends the process with 101 (unwind) or by SIGABRT, 134 (abort)
PanicStatuses == {101, 134}

InputKinds == {"missing", "file", "dir", "other"}
\* a regular file *.json, a regular file with another extension, a
\* directory named *.json, or no entry of that name
EntryKinds == {"absent", "json_file", "other_file", "json_dir"}
ListingKinds == {"ok", "read_dir_err", "entry_err"}

Names == 1..MaxFiles
\* the path given on the command line in single-file mode
InputPath == 0

Str_abc == <<"a", "b", "c">>
Str_abc_padded == <<" ", " ", "a", "b", "c", " ", " ">>
Str_zx9 == <<"z", "x", "-", "9">>
Str_zx9_padded == <<" ", " ", "z", "x", "-", "9", " ", " ">>
Str_date == <<"2", "0", "2", "0", "-", "0", "1", "-", "0", "1">>
Str_date_padded == <<" ">> \o Str_date \o <<" ">>

\* the Orders of mod tests and of the end-to-end examples
SampleOrders ==
  { Order(Some(Str_abc_padded), Some(Str_zx9_padded), Some(Str_date_padded)),
    Order(Some(Str_abc), Some(Str_zx9), Some(Str_date)),
    Order(Some(<<" ">>), Some(Str_zx9), Some(Str_date)),
    Order(None, Some(Str_zx9), Some(Str_date)),
    Order(Some(<<" ">>), Some(<<" ", " ">>), Some(<<" ">>)) }

\* what reading and parsing one file can give
IoErr == [kind |-> "io_err", order |-> Order(None, None, None)]
BadJson == [kind |-> "bad_json", order |-> Order(None, None, None)]
Parsed(o) == [kind |-> "order", order |-> o]
FileContents == {IoErr, BadJson} \cup {Parsed(o) : o \in SampleOrders}

NoIssues == <<>>
Line(t, path) == [t |-> t, path |-> path, errors |-> 0, issues |-> NoIssues]

\* fn print_report: the counts, then one line per issue
print_report(path, issues) ==
  [t |-> "report", path |-> path,
   errors |-> Cardinality({i \in DOMAIN issues : issues[i].severity = Error}),
   issues |-> issues]

\* issues.iter().any(|i| matches!(i.severity, Severity::Error))
any_error(issues) == \E i \in DOMAIN issues : issues[i].severity = Error

RECURSIVE insert_sorted(_, _)
insert_sorted(x, s) ==
  IF s = <<>> THEN <<x>>
  ELSE IF x <= Head(s) THEN <<x>> \o s
  ELSE <<Head(s)>> \o insert_sorted(x, Tail(s))

\* faulty variant: files.sort() is dropped
sort_nop(s) == s

\* Vec::sort
RECURSIVE sort(_)
sort(s) == IF s = <<>> THEN <<>> ELSE insert_sorted(Head(s), sort(Tail(s)))

\* the orders in which read_dir can yield the entries
Perms(S) == {f \in [1..Cardinality(S) -> S] : \A i, j \in DOMAIN f : i # j => f[i] # f[j]}

\* path.is_file() && path.extension() == Some("json")
is_json_file(n) == entries[n] = "json_file"

RECURSIVE filter_json(_)
filter_json(s) ==
  IF s = <<>> THEN <<>>
  ELSE IF is_json_file(Head(s)) THEN <<Head(s)>> \o filter_json(Tail(s))
  ELSE filter_json(Tail(s))

\* fn get_json_files, for one order of the read_dir entries
get_json_files(dir_order) == sort(filter_json(dir_order))

MInit ==
  /\ input_kind \in InputKinds
  /\ entries \in [Names -> EntryKinds]
  /\ listing \in ListingKinds
  /\ input_kind # "dir" => /\ entries = [n \in Names |-> "absent"]
                           /\ listing = "ok"
  /\ pc = "start"
  /\ files = <<>>
  /\ next_file = 1
  /\ raw = IoErr
  /\ any_failed = FALSE
  /\ reads = <<>>
  /\ output = <<>>
  /\ exit_status = NoExit

Exit(status) ==
  /\ pc' = "exited"
  /\ exit_status' = status

\* if !cli.input.exists() { eprintln!; process::exit(1) }
CheckExists ==
  /\ pc = "start"
  /\ IF input_kind = "missing"
       THEN /\ output' = Append(output, Line("stderr", InputPath))
            /\ Exit(ExitFailure)
       ELSE /\ pc' = "is_dir"
            /\ UNCHANGED <<output, exit_status>>
  /\ UNCHANGED <<input_kind, entries, listing, files, next_file, raw,
                 any_failed, reads>>

\* if cli.input.is_dir() { let files = get_json_files(&cli.input); ...
ListDir ==
  /\ pc = "is_dir"
  /\ input_kind = "dir"
  /\ IF listing = "ok"
       THEN /\ \E dir_order \in Perms({n \in Names : entries[n] # "absent"}) :
                 files' = get_json_files(dir_order)
            /\ pc' = "is_empty"
            /\ UNCHANGED <<output, exit_status>>
       ELSE \* read_dir failed: panic!; an entry failed: unwrap panics
            /\ output' = Append(output, Line("panic", InputPath))
            /\ \E status \in PanicStatuses : Exit(status)
            /\ UNCHANGED files
  /\ UNCHANGED <<input_kind, entries, listing, next_file, raw, any_failed, reads>>

\* if files.is_empty() { eprintln!; process::exit(1) }  let mut any_failed = false
CheckEmpty ==
  /\ pc = "is_empty"
  /\ IF files = <<>>
       THEN /\ output' = Append(output, Line("stderr", InputPath))
            /\ Exit(ExitFailure)
            /\ UNCHANGED any_failed
       ELSE /\ any_failed' = FALSE
            /\ pc' = "for"
            /\ UNCHANGED <<output, exit_status>>
  /\ UNCHANGED <<input_kind, entries, listing, files, next_file, raw, reads>>

\* for path in files { println!("== {} ==", path.display());
ForHeader ==
  /\ pc = "for"
  /\ next_file <= Len(files)
  /\ output' = Append(output, Line("header", files[next_file]))
  /\ pc' = "read"
  /\ UNCHANGED <<input_kind, entries, listing, files, next_file, raw,
                 any_failed, reads, exit_status>>

\* let raw = fs::read_to_string(&path).unwrap_or_else(|e| { eprintln!; exit(1) })
ForRead ==
  /\ pc = "read"
  /\ \E c \in FileContents :
       /\ reads' = Append(reads, [path |-> files[next_file], content |-> c])
       /\ IF c.kind = "io_err"
            THEN /\ output' = Append(output, Line("stderr", files[next_file]))
                 /\ Exit(ExitFailure)
                 /\ UNCHANGED raw
            ELSE /\ raw' = c
                 /\ pc' = "parse"
                 /\ UNCHANGED <<output, exit_status>>
  /\ UNCHANGED <<input_kind, entries, listing, files, next_file, any_failed>>

\* let order = serde_json::from_str(&raw).unwrap_or_else(..exit(1));
\* clean_input; validate; print_report; if any error { any_failed = true }
ForProcess ==
  /\ pc = "parse"
  /\ IF raw.kind = "bad_json"
       THEN /\ output' = Append(output, Line("stderr", files[next_file]))
            /\ Exit(ExitFailure)
            /\ UNCHANGED <<any_failed, next_file>>
       ELSE LET order == raw.order
                normalized_order == clean_input(order)
                issues == validate(normalized_order)
            IN  /\ output' = Append(output, print_report(files[next_file], issues))
                /\ any_failed' = IF any_error(issues) THEN TRUE ELSE any_failed
                /\ next_file' = next_file + 1
                /\ pc' = "for"
                /\ UNCHANGED exit_status
  /\ UNCHANGED <<input_kind, entries, listing, files, raw, reads>>

\* if any_failed { process::exit(1) }  return
AfterFor ==
  /\ pc = "for"
  /\ next_file > Len(files)
  /\ IF any_failed THEN Exit(ExitFailure) ELSE Exit(ExitSuccess)
  /\ UNCHANGED <<input_kind, entries, listing, files, next_file, raw,
                 any_failed, reads, output>>

\* if cli.input.is_file() { let raw = fs::read_to_string(&cli.input)...
FileRead ==
  /\ pc = "is_dir"
  /\ input_kind = "file"
  /\ \E c \in FileContents :
       /\ reads' = Append(reads, [path |-> InputPath, content |-> c])
       /\ IF c.kind = "io_err"
            THEN /\ output' = Append(output, Line("stderr", InputPath))
                 /\ Exit(ExitFailure)
                 /\ UNCHANGED raw
            ELSE /\ raw' = c
                 /\ pc' = "file_parse"
                 /\ UNCHANGED <<output, exit_status>>
  /\ UNCHANGED <<input_kind, entries, listing, files, next_file, any_failed>>

\* from_str; clean_input; validate; print_report; if any error { exit(1) }
FileProcess ==
  /\ pc = "file_parse"
  /\ IF raw.kind = "bad_json"
       THEN /\ output' = Append(output, Line("stderr", InputPath))
            /\ Exit(ExitFailure)
       ELSE LET order == raw.order
                normalized_order == clean_input(order)
                issues == validate(normalized_order)
            IN  /\ output' = Append(output, print_report(InputPath, issues))
                /\ IF any_error(issues) THEN Exit(ExitFailure) ELSE Exit(ExitSuccess)
  /\ UNCHANGED <<input_kind, entries, listing, files, next_file, raw,
                 any_failed, reads>>

\* else { eprintln!("input path is not a regular file or directory"); exit(1) }
NotFileOrDir ==
  /\ pc = "is_dir"
  /\ input_kind = "other"
  /\ output' = Append(output, Line("stderr", InputPath))
  /\ Exit(ExitFailure)
  /\ UNCHANGED <<input_kind, entries, listing, files, next_file, raw,
                 any_failed, reads>>

\* ---------------------------------------------------------- specifications
\* the unit-level machine at rest while main runs
UIdle ==
  /\ test_order = Order(None, None, None)
  /\ prev_cleaned = test_order
  /\ cleaned = test_order
  /\ stage = "built"
  /\ validated = TRUE
  /\ test_issues = <<>>

\* main not started while the pure functions are exercised
MIdle ==
  /\ input_kind = "missing"
  /\ entries = [n \in Names |-> "absent"]
  /\ listing = "ok"
  /\ pc = "idle"
  /\ files = <<>>
  /\ next_file = 1
  /\ raw = IoErr
  /\ any_failed = FALSE
  /\ reads = <<>>
  /\ output = <<>>
  /\ exit_status = NoExit

Init == MInit /\ UIdle

Next ==
  \/ CheckExists /\ UNCHANGED uvars
  \/ ListDir /\ UNCHANGED uvars
  \/ CheckEmpty /\ UNCHANGED uvars
  \/ ForHeader /\ UNCHANGED uvars
  \/ ForRead /\ UNCHANGED uvars
  \/ ForProcess /\ UNCHANGED uvars
  \/ AfterFor /\ UNCHANGED uvars
  \/ FileRead /\ UNCHANGED uvars
  \/ FileProcess /\ UNCHANGED uvars
  \/ NotFileOrDir /\ UNCHANGED uvars

Spec == Init /\ [][Next]_vars

UnitInit == UInit /\ MIdle

UnitNext ==
  \/ CallCleanInput /\ UNCHANGED mvars
  \/ CallValidate /\ UNCHANGED mvars

UnitSpec == UnitInit /\ [][UnitNext]_vars

\* ------------------------------------------------- vocabulary of the claims
FieldNames == {"event_id", "part_number", "timestamp"}

\* position of a field in the order identifier, part code, timestamp
FieldRank(f) ==
  CASE f = "event_id" -> 1
    [] f = "part_number" -> 2
    [] f = "timestamp" -> 3

\* a string that is empty or holds whitespace only
Blank(s) == \A i \in DOMAIN s : s[i] \in WhiteSpace

\* a raw field that is absent, empty or whitespace-only
Unusable(opt) == ~opt.some \/ Blank(opt.v)

\* d is c with an ASCII lowercase letter mapped to its uppercase letter
UpperOf(c, d) ==
  IF \E k \in 1..26 : AsciiLower[k] = c
    THEN \E k \in 1..26 : AsciiLower[k] = c /\ AsciiUpper[k] = d
    ELSE d = c

\* core is s without its leading and trailing whitespace
Stripped(s, core) ==
  \E i, j \in 0..Len(s) :
    /\ i + j <= Len(s)
    /\ \A k \in 1..i : s[k] \in WhiteSpace
    /\ \A k \in (Len(s) - j + 1)..Len(s) : s[k] \in WhiteSpace
    /\ core = SubSeq(s, i + 1, Len(s) - j)
    /\ core # <<>> => core[1] \notin WhiteSpace /\ core[Len(core)] \notin WhiteSpace

IssuesOf(issues, f) == {i \in DOMAIN issues : issues[i].field = f}

\* ---------------------------------------------------------------- claims
\* C5: clean_input is idempotent: cleaning a cleaned Order gives the same
\* Order, field by field.
C5_CleanIdempotent ==
  stage = "recleaned" =>
    \A f \in FieldNames : cleaned[f] = prev_cleaned[f]

C5_Witness ==
  /\ stage = "recleaned"
  /\ test_order = Order(Some(<<" ", "a">>), Some(<<"a", "Z">>), Some(<<" ", " ">>))
  /\ prev_cleaned = Order(Some(<<"a">>), Some(<<"A", "Z">>), None)
  /\ cleaned = prev_cleaned

\* C6: every field of clean_input's result is absent, or a non-empty string
\* without leading or trailing whitespace; absent stays absent and a blank
\* value becomes absent.
C6_CleanedNeverBlank ==
  stage # "built" =>
    \A f \in FieldNames :
      /\ ~prev_cleaned[f].some => cleaned[f] = None
      /\ prev_cleaned[f].some /\ Blank(prev_cleaned[f].v) => cleaned[f] = None
      /\ cleaned[f].some =>
           /\ cleaned[f].v # <<>>
           /\ ~Blank(cleaned[f].v)
           /\ cleaned[f].v[1] \notin WhiteSpace
           /\ cleaned[f].v[Len(cleaned[f].v)] \notin WhiteSpace

C6_Witness ==
  /\ stage = "cleaned"
  /\ test_order = Order(Some(<<" ", " ">>), None, Some(<<"a", " ">>))
  /\ cleaned = Order(None, None, Some(<<"a">>))

\* C7: validate after clean_input never reports "must not be empty"; every
\* issue is "missing required field", and a field has an issue exactly when
\* it was absent, empty or whitespace-only in the raw Order.
C7_PipelineOnlyMissing ==
  (stage = "cleaned" /\ validated) =>
    /\ \A i \in DOMAIN test_issues :
         /\ test_issues[i].message = "missing required field"
         /\ test_issues[i].message # "must not be empty"
    /\ \A f \in FieldNames :
         (IssuesOf(test_issues, f) # {}) <=> Unusable(test_order[f])

C7_Witness ==
  /\ stage = "cleaned"
  /\ validated
  /\ test_order = Order(Some(<<" ">>), Some(<<"a">>), Some(<<>>))
  /\ Len(test_issues) = 2

\* C8: validate decides each field on its own: at most one issue per field,
\* all of error severity; absent gives "missing required field", present
\* but blank gives "must not be empty", present and non-blank gives none.
C8_ValidatePerField ==
  validated =>
    /\ \A i \in DOMAIN test_issues :
         /\ test_issues[i].severity = Error
         /\ test_issues[i].field \in FieldNames
    /\ \A f \in FieldNames :
         LET mine == IssuesOf(test_issues, f)
         IN  /\ Cardinality(mine) <= 1
             /\ ~cleaned[f].some =>
                  \E i \in mine : test_issues[i].message = "missing required field"
             /\ cleaned[f].some /\ Blank(cleaned[f].v) =>
                  \E i \in mine : test_issues[i].message = "must not be empty"
             /\ cleaned[f].some /\ ~Blank(cleaned[f].v) => mine = {}
    /\ (\A f \in FieldNames : cleaned[f].some /\ ~Blank(cleaned[f].v))
         => test_issues = <<>>
    /\ \A f \in FieldNames :
         ( /\ ~cleaned[f].some
           /\ \A g \in FieldNames \ {f} : cleaned[g].some /\ ~Blank(cleaned[g].v) )
         => test_issues = <<Issue_error(f, "missing required field")>>

C8_Witness ==
  /\ validated
  /\ stage = "built"
  /\ cleaned = Order(Some(<<" ">>), None, Some(<<"a">>))
  /\ Len(test_issues) = 2
  /\ test_issues[1].message = "must not be empty"
  /\ test_issues[2].message = "missing required field"

\* C9: the issues validate returns are in the order event_id, part_number,
\* timestamp, and no field is named twice.
C9_IssueOrder ==
  validated =>
    \A i, j \in DOMAIN test_issues :
      i < j => FieldRank(test_issues[i].field) < FieldRank(test_issues[j].field)

C9_Witness ==
  /\ validated
  /\ stage = "built"
  /\ cleaned = Order(Some(<<" ">>), None, Some(<<>>))
  /\ Len(test_issues) = 3

\* C10: a present field of clean_input's result is the same field of the
\* input without its leading and trailing whitespace; part_number is also
\* ASCII-uppercased and holds no ASCII lowercase letter; event_id and
\* timestamp keep their letter case.
C10_CleanedValue ==
  stage # "built" =>
    \A f \in FieldNames :
      cleaned[f].some =>
        /\ prev_cleaned[f].some
        /\ \E core \in {SubSeq(prev_cleaned[f].v, a, b) :
                          a, b \in 1..Len(prev_cleaned[f].v)} :
             /\ Stripped(prev_cleaned[f].v, core)
             /\ IF f = "part_number"
                  THEN /\ Len(cleaned[f].v) = Len(core)
                       /\ \A k \in DOMAIN core : UpperOf(core[k], cleaned[f].v[k])
                       /\ \A k \in DOMAIN core : \A m \in 1..26 :
                            cleaned[f].v[k] # AsciiLower[m]
                  ELSE cleaned[f].v = core

C10_Witness ==
  /\ stage = "cleaned"
  /\ test_order = Order(Some(<<" ", "a">>), Some(<<"a", " ">>), Some(<<"a", "Z">>))
  /\ cleaned = Order(Some(<<"a">>), Some(<<"A">>), Some(<<"a", "Z">>))

\* ------------------------------------------------------ claims about main
\* an Order whose three fields are present and not blank
OrderOk(o) == \A f \in FieldNames : o[f].some /\ ~Blank(o[f].v)

JsonNames == {n \in Names : entries[n] = "json_file"}

\* the input path names a regular file, or a directory with a *.json file
PathValid ==
  \/ input_kind = "file"
  \/ input_kind = "dir" /\ JsonNames # {}

\* every file read so far was read and parsed
AllParsed == \A i \in DOMAIN reads : reads[i].content.kind = "order"

\* no record read so far has a field that is absent or blank
AllRecordsOk ==
  \A i \in DOMAIN reads :
    reads[i].content.kind = "order" => OrderOk(reads[i].content.order)

Count(t) == Cardinality({i \in DOMAIN output : output[i].t = t})

\* C1: the exit status is 0 exactly when the input path is valid, every
\* processed file was read and parsed and no processed record has an issue;
\* in every other case it is 1.
C1_ExitStatus ==
  pc = "exited" =>
    /\ exit_status \in {ExitSuccess, ExitFailure}
    /\ exit_status = ExitSuccess <=> (PathValid /\ AllParsed /\ AllRecordsOk)

\* C2: in directory mode a read or parse failure on one file does not stop
\* the run: every file of the sorted list still gets its header, and every
\* file that reads and parses its report.
C2_ContinueAfterFailure ==
  (pc = "exited" /\ input_kind = "dir" /\ files # <<>>) =>
    /\ \A k \in DOMAIN files :
         \E i \in DOMAIN output : output[i].t = "header" /\ output[i].path = files[k]
    /\ Count("header") = Len(files)
    /\ Count("report") = Len(files) - Count("stderr")

\* a failure the run met: a path-resolution failure, a failure to list the
\* directory, a failure to read a file, or malformed JSON
PathFailure ==
  \/ input_kind \in {"missing", "other"}
  \/ input_kind = "dir" /\ listing = "ok" /\ JsonNames = {}

ListFailure == input_kind = "dir" /\ listing # "ok"

\* C3: every failure ends the process with exit status 1 and no other; for
\* the path-resolution failures nothing is read and no report is printed.
C3_FailureExitsOne ==
  pc = "exited" =>
    /\ (PathFailure \/ ListFailure \/ ~AllParsed) => exit_status = ExitFailure
    /\ PathFailure => reads = <<>> /\ Count("report") = 0 /\ Count("header") = 0

\* C4: in directory mode, while every file reads and parses, the files are
\* taken in ascending path order, exactly the *.json files of the directory;
\* the output alternates header and report of the same file, file after
\* file; at exit there are as many reports as *.json files, whatever the
\* issues are.
C4_SortedHeadedReports ==
  (input_kind = "dir" /\ files # <<>> /\ AllParsed) =>
    /\ \A i, j \in DOMAIN files : i < j => files[i] < files[j]
    /\ {files[k] : k \in DOMAIN files} = JsonNames
    /\ \A i \in DOMAIN output :
         /\ output[i].t = IF i % 2 = 1 THEN "header" ELSE "report"
         /\ output[i].path = files[(i + 1) \div 2]
    /\ \A i \in DOMAIN reads : reads[i].path = files[i]
    /\ Len(output) \in {2 * (next_file - 1), 2 * (next_file - 1) + 1}
    /\ pc = "exited" =>
         /\ Len(output) = 2 * Len(files)
         /\ Count("report") = Cardinality(JsonNames)

C4_Witness ==
  /\ pc = "exited"
  /\ input_kind = "dir"
  /\ Len(files) >= 2
  /\ entries[1] = "other_file"
  /\ AllParsed
  /\ output[2].t = "report"
  /\ output[2].issues # <<>>
  /\ output[4].t = "report"
  /\ output[4].issues = <<>>
  /\ Len(output) = 2 * Len(files)
  /\ exit_status = ExitFailure
====
